---- MODULE Spec2Model ----
(***************************************************************************)
(* Worker execution pipeline of Sentinel: broker consumer, dispatch        *)
(* channel, worker pool, orchestrator (ExecuteJobUsecase.Execute), the     *)
(* Redis idempotency lock, the durable job store and the shutdown sequence *)
(* of cmd/worker/main.go; and the process handling of the sandbox executor.*)
(***************************************************************************)
EXTENDS Integers, Sequences, FiniteSets, TLC

\* ---------------------------------------------------------------- bounds
NumJobs == 2        \* messages published by the intake service
PoolSize == 2       \* cfg.Worker.PoolSize used by the model
MaxEpoch == 2       \* AMQP channels the consumer may open (1 + reconnects)
MaxExpiry == 1      \* lock records that may reach their TTL
MaxFaults == 1      \* store / filesystem operations that may fail
MaxPanics == 1      \* panics raised inside a worker
MaxKids == 2        \* descendants the sandbox child may fork
lockTTL == 2        \* the lock TTL (10 minutes) in ticks of the store's clock
MaxCalls == 3       \* direct calls on the lock store per job and record
maxOutputBytes == 2 \* the capture limit (64 KiB) in units of the model
MaxChunk == 2       \* largest chunk handed to a capture writer in one Write
MaxAttempts == 6    \* failed connects in a row in one reconnect loop

Jobs == 1..NumJobs

\* Mutant: Start launches one goroutine more than the configured size.
WorkersOneMore == 1..(PoolSize + 1)

\* WorkerPool.Start: one goroutine per i in [0, size).
Workers == 1..PoolSize

\* ------------------------------------------------------------ domain
StatusQueued == "QUEUED"
StatusCompiling == "COMPILING"
StatusRunning == "RUNNING"
StatusSuccess == "SUCCESS"
StatusCompilationError == "COMPILATION_ERROR"
StatusRuntimeError == "RUNTIME_ERROR"
StatusTimeout == "TIMEOUT"
StatusMemoryLimitExceeded == "MEMORY_LIMIT_EXCEEDED"
StatusInternalError == "INTERNAL_ERROR"

TerminalStatuses ==
    {StatusSuccess, StatusCompilationError, StatusRuntimeError,
     StatusTimeout, StatusMemoryLimitExceeded, StatusInternalError}

IsTerminal(s) == s \in TerminalStatuses

LangPython == "python"
LangCpp == "cpp"
LangOther == "ruby"     \* a Language value Execute has no case for

\* The language carried by the message of job j (odd jobs Python, even C++).
Language(j) == IF j % 2 = 1 THEN LangPython ELSE LangCpp

\* Verdicts the executor hands back in the pipeline model: one passing and one
\* failing verdict per language (the orchestrator stores whatever it is given
\* and never branches on it; the executor model below produces all of them).
Verdicts(lang) ==
    IF lang = LangCpp THEN {StatusSuccess, StatusCompilationError}
    ELSE {StatusSuccess, StatusRuntimeError}

\* What Execute of the executor hands back with a nil error: with no sandbox
\* tool at nsjailPath cmd.Run fails before any process exists and the result
\* carries INTERNAL_ERROR.
ExecuteVerdicts(lang, path) ==
    IF path = "missing" THEN {StatusInternalError} ELSE Verdicts(lang)

\* A delivery wrapped by the consumer: the job and the channel whose
\* delivery tag its Ack/Nack closures are bound to.
NoMsg == [job |-> 0, epoch |-> 0]
Envelope(j, e) == [job |-> j, epoch |-> e]

NoCalls == [ack |-> 0, nackDlq |-> 0, nackRequeue |-> 0]

\* capacity of the dispatch channel: make(chan, PoolSize*2)
ChanCap == PoolSize * 2

VARIABLES
    \* broker
    bstate,      \* per message: "ready" | "unacked" | "acked" | "dlq", or
                 \* "poison": ready, with a body that is no JSON Job
    conn,        \* "up" | "down": the consumer's AMQP connection/channel
    chanEpoch,   \* number of the channel currently (or last) open
    \* consumer
    cpc,         \* position of Consumer.Start / consume
    cmsg,        \* envelope held by the consumer between receive and dispatch
    attempt,     \* Start: counter of the reconnect loop
    delay,       \* Start: delay of the last time.Sleep, in seconds (0: none)
    closed,      \* Consumer.closed / closeCh closed
    \* dispatch channel and shared context
    jobsChan,    \* buffered channel contents
    chanClosed,  \* close(jobsChan) executed
    cancelled,   \* ctx cancelled
    mpc,         \* position of main's shutdown sequence
    \* workers
    wpc,         \* per worker: position in worker()/Execute
    wmsg,        \* per worker: envelope in hand
    wres,        \* per worker: what Execute returned for the envelope
    wverdict,    \* per worker: status of the ExecutionResult in hand
    calls,       \* per worker: callbacks invoked for the current envelope
    steps,       \* per worker: the calls the current Execute made, in order
    writes,      \* per worker: UpdateStatus/SetResult issued by the current call
    preDone,     \* per worker: job was terminal with its lock present at Acquire
    \* stores
    lock,        \* per job: remaining TTL of the lock record in Redis, 0 = no record
    status,      \* per job: durable status
    faultsLeft,  \* failures the collaborators (Redis, Postgres, filesystem) may still produce
    expiries,    \* lock records expired so far
    panics,      \* panics raised so far
    outage,      \* connects that fail in a row while the broker is away
    \* observation
    nOk,         \* per job: Execute calls that returned (false, nil)
    nSetResult,  \* per job: SetResult calls that returned nil
    nSandbox,    \* per job: sandbox invocations
    earlyAck,    \* jobs for which Ack was invoked with no SetResult done
    \* clients calling the lock store directly, per job and since the current
    \* record was created (or since the start while there is none)
    nAcquired,   \* AcquireLock calls that returned true
    nRefused,    \* AcquireLock calls that returned false
    nReleased,   \* ReleaseLock calls
    \* sandbox executor (one Execute call and its sandbox invocations)
    xpc,         \* "idle" | "compile" | "run" | "returned"
    xlang,       \* language of the request
    xprocs,      \* live processes <<phase, n>>; n = 0 is the sandbox tool itself,
                 \* which leads the process group of its invocation
    xleader,     \* the tool of the current invocation: "none" | "running" |
                 \* "exited0" | "exitedN" | "exited137" | "killed" | "nostart"
    xerr,        \* timeoutCtx.Err() of the current invocation: "nil" |
                 \* "deadline" | "canceled"
    xcaller,     \* the caller's context: "live" | "cancelled"
    xsignals,    \* SIGKILLs sent: <<phase, "pid">> or <<phase, "group">>
    xstatus,     \* Status of the result Execute returned
    xstderr,     \* the invocation whose result (and stderr) Execute returned
    xlog,        \* diagnostic log of the tool in the current invocation
    xbuf,        \* the two limitedBuffers of the current invocation
    xwrote,      \* bytes the child wrote to each stream in this invocation
    xprog,       \* bytes retained in the stderr buffer that are program output
    xshort,      \* streams whose copy goroutine stopped on a short write
    xres,        \* Stdout and Stderr of the result Execute returned
    xreturn,     \* what Execute returned: "none" | "result" | "error" (nil result)
    \* sandbox executor, wall clock of one Execute call (milliseconds)
    tphase,      \* "idle" | "compile" | "run" | "returned"
    tlang,       \* language of the request
    tlimit,      \* req.TimeLimitMs
    tnow,        \* time since Execute was called
    tstart,      \* time at which the current (or last) invocation started
    targ,        \* the tool's --time_limit argument, in seconds
    tdeadline,   \* deadline of timeoutCtx of the current (or last) invocation
    tlast,       \* the invocation whose result Execute returned
    tcause,      \* how that invocation ended: "exit" | "tool" | "outer" |
                 \* "outerFirst" (the tool's limit had not expired before)
    tstatus,     \* Status of the result Execute returned
    nsjailPath   \* e.nsjailPath: "present" | "missing" (no executable there)

pipeVars == <<bstate, conn, chanEpoch, cpc, cmsg, attempt, delay, closed, jobsChan, chanClosed,
              cancelled, mpc, wpc, wmsg, wres, wverdict, calls, writes, steps,
              preDone,
              lock, status, faultsLeft, expiries, panics, outage,
              nOk, nSetResult, nSandbox, earlyAck,
              nAcquired, nRefused, nReleased>>
runVars == <<xpc, xlang, xprocs, xleader, xerr, xcaller, xsignals, xstatus,
             xstderr, xlog, nsjailPath, xbuf, xwrote, xprog, xshort, xres, xreturn>>
timeVars == <<tphase, tlang, tlimit, tnow, tstart, targ, tdeadline, tlast,
              tcause, tstatus>>
execVars == <<runVars, timeVars>>
vars == <<pipeVars, execVars>>

\* ------------------------------------------------------------ helpers
\* Outcomes of one round trip to a store: it fails when the context is
\* already cancelled, and may fail while the collaborators still have failures
\* to produce.
StoreOutcomes == IF cancelled THEN {"fail"}
                 ELSE IF faultsLeft > 0 THEN {"ok", "fault"} ELSE {"ok"}

\* Outcomes of creating and filling the scratch directory.
FsOutcomes == IF faultsLeft > 0 THEN {"ok", "fault"} ELSE {"ok"}

Spend(o) == IF o = "fault" THEN faultsLeft - 1 ELSE faultsLeft

IsErr(res) == res \in {"err_lock", "err_status", "err_sandbox", "err_result"}

\* Mutant: the boolean SetNX answers is dropped, every call without error
\* reports the lock as acquired.
AcquireLockAlways(l, j) ==
    <<TRUE, IF l[j] = 0 THEN [l EXCEPT ![j] = lockTTL] ELSE l>>

\* Mutant: the lock is written without NX, every caller acquires it.
AcquireLockNoNX(l, j) == <<TRUE, [l EXCEPT ![j] = lockTTL]>>

\* redisIdempotency.AcquireLock: SET key value NX EX lockTTL.
\* Yields <<acquired, lock store afterwards>>.
AcquireLock(l, j) ==
    <<l[j] = 0, IF l[j] = 0 THEN [l EXCEPT ![j] = lockTTL] ELSE l>>

\* Mutant: the key is deleted on release.
ReleaseLockDel(l, j) == [l EXCEPT ![j] = 0]

\* redisIdempotency.ReleaseLock: EXPIRE key lockTTL; an existing record stays
\* and gets the full TTL again, a missing one is not created.
ReleaseLock(l, j) == IF l[j] > 0 THEN [l EXCEPT ![j] = lockTTL] ELSE l

\* Mutant: the duplicate branch logs and falls through to step 2.
IdempotencyCheckFallsThrough(o, acquired) ==
    IF o # "ok" THEN <<"err_lock", "settle">>
    ELSE IF ~acquired THEN <<"dup", "update">>
    ELSE <<"none", "update">>

\* Mutant: the gate fails open, an error of the lock store is logged and
\* the call goes on.
IdempotencyCheckFailOpen(o, acquired) ==
    IF o # "ok" THEN <<"err_lock", "update">>
    ELSE IF ~acquired THEN <<"dup", "settle">>
    ELSE <<"none", "update">>

\* Step 1 of Execute, what follows AcquireLock: <<what Execute returns at
\* once ("none" when it goes on), the worker's next position>>.
IdempotencyCheck(o, acquired) ==
    IF o # "ok" THEN <<"err_lock", "settle">>
    ELSE IF ~acquired THEN <<"dup", "settle">>
    ELSE <<"none", "update">>

\* Mutant: every return with an error deletes the lock record first.
LockOnErrorDeleted(l, j) == [l EXCEPT ![j] = 0]

\* Execute, `return false, err` after the lock was acquired: the lock store
\* is not called.
LockOnError(l, j) == l

\* Mutant: step 2 writes RUNNING for every language.
InitialStatusRunning(lang) == StatusRunning

\* Step 2 of Execute: COMPILING for C++, RUNNING otherwise.
InitialStatus(lang) == IF lang = LangCpp THEN StatusCompiling ELSE StatusRunning

\* JobRepository.UpdateStatus / SetResult: UPDATE ... SET status = $1 WHERE job_id = $n
StoreWrite(st, j, s) == [st EXCEPT ![j] = s]

\* Mutant: the best-effort update after a failed sandbox run writes RUNTIME_ERROR.
SandboxErrorStatusRuntime == StatusRuntimeError

\* Step 3 of Execute, err != nil: the status written before returning the error.
SandboxErrorStatus == StatusInternalError

\* Mutant: a duplicate is rejected instead of acknowledged.
WorkerOutcomeDupNack(res) == IF IsErr(res) \/ res = "dup" THEN "nackDlq" ELSE "ack"

\* Mutant: the error branch is missing, every envelope is acknowledged.
WorkerOutcomeAckAll(res) == "ack"

\* The callback a pool worker invokes for what Execute returned.
WorkerOutcome(res) == IF IsErr(res) THEN "nackDlq" ELSE "ack"

\* What the broker does with localCh.Ack(tag) / localCh.Nack(tag, false, requeue)
\* issued through the closures of an envelope: it settles the delivery only
\* when the envelope's channel is still the open one.
Settled(bs, env, cb) ==
    IF conn = "up" /\ env.epoch = chanEpoch /\ bs[env.job] = "unacked"
    THEN [bs EXCEPT ![env.job] =
            CASE cb = "ack" -> "acked"
              [] cb = "nackDlq" -> "dlq"
              [] OTHER -> "ready"]
    ELSE bs

\* The broker requeues every unacknowledged delivery of a channel that closes.
Requeued(bs) == [j \in Jobs |-> IF bs[j] = "unacked" THEN "ready" ELSE bs[j]]

Bump(f, j) == [f EXCEPT ![j] = @ + 1]

\* One call of Execute to a collaborator: the method, the status it was given
\* ("" when it takes none) and whether it returned nil.
Step(op, arg, o) == [op |-> op, arg |-> arg, ok |-> (o = "ok")]

\* ------------------------------------------------------------ initial state
\* budget: failures the collaborators may produce; reconnects: channels the
\* consumer may still open after the one it starts with; fails: connects that
\* fail in a row before one succeeds.
PipeStartOutage(budget, reconnects, queued, bad, fails) ==
    /\ outage = fails
    /\ bstate = [j \in Jobs |-> IF j \in bad THEN "poison" ELSE "ready"]
    /\ conn = "up"
    /\ chanEpoch = MaxEpoch - reconnects
    /\ cpc = "select"
    /\ cmsg = NoMsg
    /\ attempt = 0
    /\ delay = 0
    /\ closed = FALSE
    /\ jobsChan = queued
    /\ chanClosed = FALSE
    /\ cancelled = FALSE
    /\ mpc = "running"
    /\ wpc = [w \in Workers |-> "select"]
    /\ wmsg = [w \in Workers |-> NoMsg]
    /\ wres = [w \in Workers |-> "none"]
    /\ wverdict = [w \in Workers |-> "none"]
    /\ calls = [w \in Workers |-> NoCalls]
    /\ writes = [w \in Workers |-> 0]
    /\ steps = [w \in Workers |-> <<>>]
    /\ preDone = [w \in Workers |-> FALSE]
    /\ lock = [j \in Jobs |-> 0]
    /\ status = [j \in Jobs |-> StatusQueued]
    /\ faultsLeft = budget
    /\ expiries = 0
    /\ panics = 0
    /\ nOk = [j \in Jobs |-> 0]
    /\ nSetResult = [j \in Jobs |-> 0]
    /\ nSandbox = [j \in Jobs |-> 0]
    /\ earlyAck = {}
    /\ nAcquired = [j \in Jobs |-> 0]
    /\ nRefused = [j \in Jobs |-> 0]
    /\ nReleased = [j \in Jobs |-> 0]

PipeStart(budget, reconnects, queued, bad) ==
    PipeStartOutage(budget, reconnects, queued, bad, 1)
PipeInit(budget, reconnects) == PipeStart(budget, reconnects, <<>>, {})

ExecIdle ==
    /\ xpc = "idle"
    /\ xlang = "none"
    /\ xprocs = {}
    /\ xleader = "none"
    /\ xerr = "nil"
    /\ xcaller = "live"
    /\ xsignals = {}
    /\ xstatus = "none"
    /\ xstderr = "none"
    /\ xlog = {}
    /\ xbuf = [s \in {"stdout", "stderr"} |-> [len |-> 0, truncated |-> FALSE]]
    /\ xwrote = [s \in {"stdout", "stderr"} |-> 0]
    /\ xprog = 0
    /\ xshort = {}
    /\ xres = "none"
    /\ xreturn = "none"
    /\ tphase = "idle"
    /\ tlang = "none"
    /\ tlimit = 0
    /\ tnow = 0
    /\ tstart = 0
    /\ targ = 0
    /\ tdeadline = 0
    /\ tlast = "none"
    /\ tcause = "none"
    /\ tstatus = "none"

\* ------------------------------------------------------------ consumer
consumerVars == <<cpc, cmsg, attempt, delay>>
brokerVars == <<bstate, conn, chanEpoch>>
mainVars == <<closed, chanClosed, cancelled, mpc>>
workerVars == <<wpc, wmsg, wres, wverdict, calls, writes, steps, preDone>>
storeVars == <<lock, status>>
envVars == <<faultsLeft, expiries, panics>>
obsVars == <<nOk, nSetResult, nSandbox, earlyAck>>
lockObs == <<nAcquired, nRefused, nReleased>>

\* consume: case delivery, ok := <-deliveries (ok, body unmarshals).
\* Prefetch 1: the broker delivers only while the channel has nothing unacked.
ConsumerReceive(j) ==
    /\ cpc = "select"
    /\ conn = "up"
    /\ \A k \in Jobs : bstate[k] # "unacked"
    /\ bstate[j] = "ready"
    /\ bstate' = [bstate EXCEPT ![j] = "unacked"]
    /\ cmsg' = Envelope(j, chanEpoch)
    /\ cpc' = "dispatch"
    /\ UNCHANGED <<conn, chanEpoch, jobsChan, mainVars, workerVars, storeVars,
                   envVars, obsVars, execVars, outage, lockObs, attempt, delay>>

\* Mutant: the undecodable delivery is rejected with requeue.
PoisonCallbackRequeue == "nackRequeue"

\* consume, json.Unmarshal failed: delivery.Nack(false, false).
PoisonCallback == "nackDlq"

\* consume: case delivery, ok := <-deliveries (ok) with a body that
\* json.Unmarshal rejects: the delivery is nacked and the loop continues.
ConsumerReceivePoison(j) ==
    /\ cpc = "select"
    /\ conn = "up"
    /\ \A k \in Jobs : bstate[k] # "unacked"
    /\ bstate[j] = "poison"
    /\ bstate' = Settled([bstate EXCEPT ![j] = "unacked"],
                         Envelope(j, chanEpoch), PoisonCallback)
    /\ UNCHANGED <<conn, chanEpoch, consumerVars, jobsChan, mainVars, workerVars,
                   storeVars, envVars, obsVars, execVars, outage, lockObs>>

\* consume: case delivery, ok := <-deliveries with !ok -> return error.
ConsumerSessionEnd ==
    /\ cpc = "select"
    /\ conn = "down"
    /\ cpc' = "check"
    /\ UNCHANGED <<cmsg, brokerVars, jobsChan, mainVars, workerVars, storeVars,
                   envVars, obsVars, execVars, outage, lockObs, attempt, delay>>

\* consume: case <-ctx.Done() -> return nil; Start returns nil.
ConsumerCtxDone ==
    /\ cpc = "select"
    /\ cancelled
    /\ cpc' = "stopped"
    /\ UNCHANGED <<cmsg, brokerVars, jobsChan, mainVars, workerVars, storeVars,
                   envVars, obsVars, execVars, outage, lockObs, attempt, delay>>

\* consume: select { case c.jobs <- msg: ... }.
ConsumerDispatch ==
    /\ cpc = "dispatch"
    /\ ~chanClosed
    /\ Len(jobsChan) < ChanCap
    /\ jobsChan' = Append(jobsChan, cmsg)
    /\ cpc' = "select"
    /\ cmsg' = NoMsg
    /\ UNCHANGED <<brokerVars, mainVars, workerVars, storeVars,
                   envVars, obsVars, execVars, outage, lockObs, attempt, delay>>

\* The same send once main has closed the channel: a send on a closed
\* channel panics the consumer goroutine.
ConsumerSendClosed ==
    /\ cpc = "dispatch"
    /\ chanClosed
    /\ cpc' = "panicked"
    /\ UNCHANGED <<cmsg, brokerVars, jobsChan, mainVars, workerVars, storeVars,
                   envVars, obsVars, execVars, outage, lockObs, attempt, delay>>

\* consume: select { ... case <-ctx.Done(): delivery.Nack(false, true); return nil }.
ConsumerDispatchCancelled ==
    /\ cpc = "dispatch"
    /\ cancelled
    /\ bstate' = Settled(bstate, cmsg, "nackRequeue")
    /\ cmsg' = NoMsg
    /\ cpc' = "stopped"
    /\ UNCHANGED <<conn, chanEpoch, jobsChan, mainVars, workerVars, storeVars,
                   envVars, obsVars, execVars, outage, lockObs, attempt, delay>>

\* Start: after consume returned an error, select on closeCh / ctx.Done / default.
ConsumerCheck ==
    /\ cpc = "check"
    /\ cpc' = IF closed \/ cancelled THEN "stopped" ELSE "backoff"
    /\ attempt' = 0
    /\ UNCHANGED <<cmsg, brokerVars, jobsChan, mainVars, workerVars, storeVars,
                   envVars, obsVars, execVars, outage, lockObs, delay>>

\* Start: maxReconnectDelay and baseReconnectDelay, in seconds.
maxReconnectDelay == 30
baseReconnectDelay == 1

\* math.Pow(2, float64(attempt)) for a loop counter, which is never negative.
RECURSIVE Pow2(_)
Pow2(k) == IF k = 0 THEN 1 ELSE 2 * Pow2(k - 1)

\* math.Min(x, y).
Min(x, y) == IF x <= y THEN x ELSE y

\* Mutant: the delay is not capped.
ReconnectDelayNoCap(k) == baseReconnectDelay * Pow2(k)

\* Start: delay := time.Duration(math.Min(float64(baseReconnectDelay) *
\* math.Pow(2, float64(attempt)), float64(maxReconnectDelay))).
ReconnectDelay(k) == Min(baseReconnectDelay * Pow2(k), maxReconnectDelay)

\* Start: head of the reconnect loop, same select, then time.Sleep(delay).
ConsumerBackoff ==
    /\ cpc = "backoff"
    /\ cpc' = IF closed \/ cancelled THEN "stopped" ELSE "sleep"
    /\ delay' = IF closed \/ cancelled THEN delay ELSE ReconnectDelay(attempt)
    /\ UNCHANGED <<cmsg, brokerVars, jobsChan, mainVars, workerVars, storeVars,
                   envVars, obsVars, execVars, outage, lockObs, attempt>>

\* Start: c.connect() succeeds after the sleep; break and consume again.
ConsumerConnect ==
    /\ cpc = "sleep"
    /\ chanEpoch < MaxEpoch
    /\ conn' = "up"
    /\ chanEpoch' = chanEpoch + 1
    /\ cpc' = "select"
    /\ attempt' = 0
    /\ delay' = 0
    /\ UNCHANGED <<bstate, cmsg, jobsChan, mainVars, workerVars, storeVars,
                   envVars, obsVars, execVars, outage, lockObs>>

\* Start: c.connect() fails; continue the reconnect loop (attempt++).
ConsumerConnectFail ==
    /\ cpc = "sleep"
    /\ attempt < outage
    /\ cpc' = "backoff"
    /\ attempt' = attempt + 1
    /\ UNCHANGED <<cmsg, brokerVars, jobsChan, mainVars, workerVars, storeVars,
                   envVars, obsVars, execVars, outage, lockObs, delay>>

\* The broker side of the connection goes away.
BrokerDisconnect ==
    /\ conn = "up"
    /\ chanEpoch < MaxEpoch
    /\ conn' = "down"
    /\ bstate' = Requeued(bstate)
    /\ UNCHANGED <<chanEpoch, consumerVars, jobsChan, mainVars, workerVars,
                   storeVars, envVars, obsVars, execVars, outage, lockObs>>

\* ------------------------------------------------------------ pool worker
InExecute(w) == wpc[w] \in {"update", "sandbox", "sandboxfail", "setresult", "release"}

\* worker: case msg, ok := <-p.jobs (ok); job := msg.Job.
WorkerTake(w) ==
    /\ wpc[w] = "select"
    /\ jobsChan # <<>>
    /\ wmsg' = [wmsg EXCEPT ![w] = Head(jobsChan)]
    /\ jobsChan' = Tail(jobsChan)
    /\ wpc' = [wpc EXCEPT ![w] = "acquire"]
    /\ wres' = [wres EXCEPT ![w] = "none"]
    /\ wverdict' = [wverdict EXCEPT ![w] = "none"]
    /\ calls' = [calls EXCEPT ![w] = NoCalls]
    /\ writes' = [writes EXCEPT ![w] = 0]
    /\ steps' = [steps EXCEPT ![w] = <<>>]
    /\ preDone' = [preDone EXCEPT ![w] = FALSE]
    /\ UNCHANGED <<brokerVars, consumerVars, mainVars, storeVars, envVars,
                   obsVars, execVars, outage, lockObs>>

\* Mutant: the worker ranges over the jobs channel and returns only when it
\* is closed and drained.
WorkerCtxDoneOnClose(w) ==
    /\ wpc[w] = "select"
    /\ chanClosed
    /\ jobsChan = <<>>
    /\ wpc' = [wpc EXCEPT ![w] = "exited"]
    /\ UNCHANGED <<brokerVars, consumerVars, jobsChan, mainVars, wmsg, wres,
                   wverdict, calls, writes, steps, preDone, storeVars, envVars,
                   obsVars, execVars, outage, lockObs>>

\* worker: case <-ctx.Done(): return (wg.Done runs).
WorkerCtxDone(w) ==
    /\ wpc[w] = "select"
    /\ cancelled
    /\ wpc' = [wpc EXCEPT ![w] = "exited"]
    /\ UNCHANGED <<brokerVars, consumerVars, jobsChan, mainVars, wmsg, wres,
                   wverdict, calls, writes, steps, preDone, storeVars, envVars,
                   obsVars, execVars, outage, lockObs>>

\* Execute step 1: AcquireLock; error -> (false, err); not acquired -> (true, nil).
Acquire(w) ==
    /\ wpc[w] = "acquire"
    /\ \E o \in StoreOutcomes :
         LET j == wmsg[w].job
             r == AcquireLock(lock, j)
             g == IdempotencyCheck(o, r[1])
         IN /\ faultsLeft' = Spend(o)
            /\ steps' = [steps EXCEPT ![w] = Append(@, Step("AcquireLock", "", o))]
            /\ wres' = [wres EXCEPT ![w] = g[1]]
            /\ wpc' = [wpc EXCEPT ![w] = g[2]]
            /\ IF o # "ok"
               THEN UNCHANGED <<lock, preDone>>
               ELSE /\ lock' = r[2]
                    /\ preDone' = [preDone EXCEPT ![w] = IsTerminal(status[j]) /\ lock[j] > 0]
    /\ UNCHANGED <<brokerVars, consumerVars, jobsChan, mainVars, wmsg, wverdict,
                   calls, writes, status, expiries, panics, obsVars, execVars, outage, lockObs>>

\* Execute step 2: UpdateStatus(initialStatus); error -> (false, err).
UpdateStatus(w) ==
    /\ wpc[w] = "update"
    /\ \E o \in StoreOutcomes :
         LET j == wmsg[w].job
         IN /\ faultsLeft' = Spend(o)
            /\ steps' = [steps EXCEPT ![w] =
                  Append(@, Step("UpdateStatus", InitialStatus(Language(j)), o))]
            /\ IF o # "ok"
               THEN /\ wres' = [wres EXCEPT ![w] = "err_status"]
                    /\ wpc' = [wpc EXCEPT ![w] = "settle"]
                    /\ lock' = LockOnError(lock, j)
                    /\ UNCHANGED status
               ELSE /\ status' = StoreWrite(status, j, InitialStatus(Language(j)))
                    /\ wpc' = [wpc EXCEPT ![w] = "sandbox"]
                    /\ UNCHANGED <<wres, lock>>
    /\ writes' = [writes EXCEPT ![w] = @ + 1]
    /\ UNCHANGED <<brokerVars, consumerVars, jobsChan, mainVars, wmsg, wverdict,
                   calls, preDone, expiries, panics, obsVars, execVars, outage, lockObs>>

\* Execute step 3: executor.Execute returns a result with some verdict, or an
\* error when the scratch directory or its files cannot be written.
Sandbox(w) ==
    /\ wpc[w] = "sandbox"
    /\ \E o \in FsOutcomes :
         LET j == wmsg[w].job
         IN /\ faultsLeft' = Spend(o)
            /\ steps' = [steps EXCEPT ![w] = Append(@, Step("Execute", "", o))]
            /\ IF o # "ok"
               THEN /\ wpc' = [wpc EXCEPT ![w] = "sandboxfail"]
                    /\ UNCHANGED <<wverdict, nSandbox>>
               ELSE /\ \E v \in ExecuteVerdicts(Language(j), nsjailPath) :
                          wverdict' = [wverdict EXCEPT ![w] = v]
                    /\ nSandbox' = Bump(nSandbox, j)
                    /\ wpc' = [wpc EXCEPT ![w] = "setresult"]
    /\ UNCHANGED <<brokerVars, consumerVars, jobsChan, mainVars, wmsg, wres,
                   calls, writes, preDone, storeVars, expiries, panics, nOk,
                   nSetResult, earlyAck, execVars, outage, lockObs>>

\* Execute step 3, err != nil: _ = UpdateStatus(INTERNAL_ERROR); return (false, err).
SandboxFail(w) ==
    /\ wpc[w] = "sandboxfail"
    /\ \E o \in StoreOutcomes :
         LET j == wmsg[w].job
         IN /\ faultsLeft' = Spend(o)
            /\ steps' = [steps EXCEPT ![w] =
                  Append(@, Step("UpdateStatus", SandboxErrorStatus, o))]
            /\ status' = IF o # "ok" THEN status
                         ELSE StoreWrite(status, j, SandboxErrorStatus)
            /\ lock' = LockOnError(lock, j)
    /\ writes' = [writes EXCEPT ![w] = @ + 1]
    /\ wres' = [wres EXCEPT ![w] = "err_sandbox"]
    /\ wpc' = [wpc EXCEPT ![w] = "settle"]
    /\ UNCHANGED <<brokerVars, consumerVars, jobsChan, mainVars, wmsg, wverdict,
                   calls, preDone, expiries, panics, obsVars, execVars, outage, lockObs>>

\* Execute step 4: SetResult(result); error -> (false, err).
SetResult(w) ==
    /\ wpc[w] = "setresult"
    /\ \E o \in StoreOutcomes :
         LET j == wmsg[w].job
         IN /\ faultsLeft' = Spend(o)
            /\ steps' = [steps EXCEPT ![w] = Append(@, Step("SetResult", wverdict[w], o))]
            /\ IF o # "ok"
               THEN /\ wres' = [wres EXCEPT ![w] = "err_result"]
                    /\ wpc' = [wpc EXCEPT ![w] = "settle"]
                    /\ lock' = LockOnError(lock, j)
                    /\ UNCHANGED <<status, nSetResult>>
               ELSE /\ status' = StoreWrite(status, j, wverdict[w])
                    /\ nSetResult' = Bump(nSetResult, j)
                    /\ wpc' = [wpc EXCEPT ![w] = "release"]
                    /\ UNCHANGED <<wres, lock>>
    /\ writes' = [writes EXCEPT ![w] = @ + 1]
    /\ UNCHANGED <<brokerVars, consumerVars, jobsChan, mainVars, wmsg, wverdict,
                   calls, preDone, expiries, panics, nOk, nSandbox,
                   earlyAck, execVars, outage, lockObs>>

\* Execute step 5: _ = ReleaseLock; return (false, nil).
Release(w) ==
    /\ wpc[w] = "release"
    /\ \E o \in StoreOutcomes :
         LET j == wmsg[w].job
         IN /\ faultsLeft' = Spend(o)
            /\ steps' = [steps EXCEPT ![w] = Append(@, Step("ReleaseLock", "", o))]
            /\ lock' = IF o # "ok" THEN lock ELSE ReleaseLock(lock, j)
            /\ nOk' = Bump(nOk, j)
    /\ wres' = [wres EXCEPT ![w] = "ok"]
    /\ wpc' = [wpc EXCEPT ![w] = "settle"]
    /\ UNCHANGED <<brokerVars, consumerVars, jobsChan, mainVars, wmsg, wverdict,
                   calls, writes, preDone, status, expiries, panics, nSetResult,
                   nSandbox, earlyAck, execVars, outage, lockObs>>

\* worker: err != nil -> msg.Nack(false); duplicate or success -> msg.Ack();
\* then back to the select.
Settle(w) ==
    /\ wpc[w] = "settle"
    /\ LET j == wmsg[w].job
           cb == WorkerOutcome(wres[w])
       IN /\ bstate' = Settled(bstate, wmsg[w], cb)
          /\ calls' = [calls EXCEPT ![w] =
                         [ack |-> @.ack + (IF cb = "ack" THEN 1 ELSE 0),
                          nackDlq |-> @.nackDlq + (IF cb = "nackDlq" THEN 1 ELSE 0),
                          nackRequeue |-> @.nackRequeue + (IF cb = "nackRequeue" THEN 1 ELSE 0)]]
          /\ earlyAck' = IF cb = "ack" /\ nSetResult[j] = 0
                         THEN earlyAck \cup {j} ELSE earlyAck
    /\ wpc' = [wpc EXCEPT ![w] = "select"]
    /\ wmsg' = [wmsg EXCEPT ![w] = NoMsg]
    /\ wverdict' = [wverdict EXCEPT ![w] = "none"]
    /\ writes' = [writes EXCEPT ![w] = 0]
    /\ steps' = [steps EXCEPT ![w] = <<>>]
    /\ UNCHANGED <<conn, chanEpoch, consumerVars, jobsChan, mainVars, wres,
                   preDone, storeVars, envVars, nOk,
                   nSetResult, nSandbox, execVars, outage, lockObs>>

\* A panic raised while the worker processes an envelope: the deferred
\* recover() at the top of worker() logs it, the function returns and
\* wg.Done runs.
Panic(w) ==
    /\ wpc[w] \in {"acquire", "update", "sandbox", "setresult", "release"}
    /\ panics < MaxPanics
    /\ panics' = panics + 1
    /\ wres' = [wres EXCEPT ![w] = "panic"]
    /\ wpc' = [wpc EXCEPT ![w] = "exited"]
    /\ UNCHANGED <<brokerVars, consumerVars, jobsChan, mainVars, wmsg, wverdict,
                   calls, writes, steps, preDone, storeVars, faultsLeft, expiries,
                   obsVars, execVars, outage, lockObs>>

\* ------------------------------------------------------------ environment
\* The lock record of job j reaches its TTL (lockTTL, 10 minutes, is longer
\* than any single Execute call, so no call is inside the lock then).
LockExpire(j) ==
    /\ lock[j] > 0
    /\ expiries < MaxExpiry
    /\ \A w \in Workers : ~(InExecute(w) /\ wmsg[w].job = j)
    /\ lock' = [lock EXCEPT ![j] = 0]
    /\ expiries' = expiries + 1
    /\ UNCHANGED <<brokerVars, consumerVars, jobsChan, mainVars, workerVars,
                   status, faultsLeft, panics, obsVars, execVars, outage, lockObs>>

\* ------------------------------------------------------------ lock store
\* Clients of the idempotency store calling it directly, in any order and
\* for any job, while the store's clock runs.
LockCalls(j) == nAcquired[j] + nRefused[j] + nReleased[j]

\* A client calls AcquireLock(j).
LockAcquire(j) ==
    /\ LockCalls(j) < MaxCalls
    /\ LET r == AcquireLock(lock, j)
       IN /\ lock' = r[2]
          /\ nAcquired' = IF r[1] THEN Bump(nAcquired, j) ELSE nAcquired
          /\ nRefused' = IF r[1] THEN nRefused ELSE Bump(nRefused, j)
    /\ UNCHANGED <<brokerVars, consumerVars, jobsChan, mainVars, workerVars,
                   status, envVars, obsVars, nReleased, execVars, outage>>

\* A client calls ReleaseLock(j).
LockRelease(j) ==
    /\ LockCalls(j) < MaxCalls
    /\ lock' = ReleaseLock(lock, j)
    /\ nReleased' = Bump(nReleased, j)
    /\ UNCHANGED <<brokerVars, consumerVars, jobsChan, mainVars, workerVars,
                   status, envVars, obsVars, nAcquired, nRefused, execVars, outage>>

\* The store's clock advances by one tick for the record of job j; a record
\* whose TTL reaches 0 is removed.
LockTick(j) ==
    /\ lock[j] > 0
    /\ lock' = [lock EXCEPT ![j] = @ - 1]
    /\ IF lock[j] = 1
       THEN /\ nAcquired' = [nAcquired EXCEPT ![j] = 0]
            /\ nRefused' = [nRefused EXCEPT ![j] = 0]
            /\ nReleased' = [nReleased EXCEPT ![j] = 0]
       ELSE UNCHANGED lockObs
    /\ UNCHANGED <<brokerVars, consumerVars, jobsChan, mainVars, workerVars,
                   status, envVars, obsVars, execVars, outage>>

\* ------------------------------------------------------------ main: shutdown
\* <-quit
MainSignal ==
    /\ mpc = "running"
    /\ mpc' = "close"
    /\ UNCHANGED <<brokerVars, consumerVars, jobsChan, closed, chanClosed,
                   cancelled, workerVars, storeVars, envVars, obsVars, execVars, outage, lockObs>>

\* consumer.Close(): closed = true, close(closeCh), channel and connection closed.
MainClose ==
    /\ mpc = "close"
    /\ closed' = TRUE
    /\ conn' = "down"
    /\ bstate' = IF conn = "up" THEN Requeued(bstate) ELSE bstate
    /\ mpc' = "cancel"
    /\ UNCHANGED <<chanEpoch, consumerVars, jobsChan, chanClosed, cancelled,
                   workerVars, storeVars, envVars, obsVars, execVars, outage, lockObs>>

\* cancel()
MainCancel ==
    /\ mpc = "cancel"
    /\ cancelled' = TRUE
    /\ mpc' = "stop"
    /\ UNCHANGED <<brokerVars, consumerVars, jobsChan, closed, chanClosed,
                   workerVars, storeVars, envVars, obsVars, execVars, outage, lockObs>>

\* workerPool.Stop(): wg.Wait() returns once every worker has returned.
MainStop ==
    /\ mpc = "stop"
    /\ \A w \in Workers : wpc[w] = "exited"
    /\ mpc' = "closechan"
    /\ UNCHANGED <<brokerVars, consumerVars, jobsChan, closed, chanClosed,
                   cancelled, workerVars, storeVars, envVars, obsVars, execVars, outage, lockObs>>

\* close(jobsChan); the rest of main only stops the metrics server.
MainCloseChan ==
    /\ mpc = "closechan"
    /\ chanClosed' = TRUE
    /\ mpc' = "exit"
    /\ UNCHANGED <<brokerVars, consumerVars, jobsChan, closed, cancelled,
                   workerVars, storeVars, envVars, obsVars, execVars, outage, lockObs>>

\* ------------------------------------------------------------ specifications
ConsumerStep ==
    \/ \E j \in Jobs : ConsumerReceive(j)
    \/ ConsumerSessionEnd
    \/ ConsumerDispatch
    \/ ConsumerCheck
    \/ ConsumerBackoff
    \/ ConsumerConnect
    \/ ConsumerConnectFail
    \/ BrokerDisconnect

WorkerStep ==
    \E w \in Workers :
        \/ WorkerTake(w)
        \/ Acquire(w)
        \/ UpdateStatus(w)
        \/ Sandbox(w)
        \/ SetResult(w)
        \/ Release(w)
        \/ Settle(w)

ShutdownStep ==
    \/ MainSignal
    \/ MainClose
    \/ MainCancel
    \/ MainStop
    \/ MainCloseChan
    \/ ConsumerCtxDone
    \/ ConsumerDispatchCancelled
    \/ ConsumerSendClosed
    \/ \E w \in Workers : WorkerCtxDone(w)

FaultStep == \E w \in Workers : SandboxFail(w)

ExpiryStep == \E j \in Jobs : LockExpire(j)

PanicStep == \E w \in Workers : Panic(w)

\* The whole pipeline: collaborators that may fail MaxFaults times, lock
\* expiry, panics and the shutdown sequence.
Init == PipeInit(MaxFaults, MaxEpoch - 1) /\ ExecIdle /\ nsjailPath = "present"

Next == ConsumerStep \/ WorkerStep \/ FaultStep \/ ExpiryStep \/ PanicStep \/ ShutdownStep

Spec == Init /\ [][Next]_vars

\* The pipeline with healthy collaborators: broker disconnects and
\* redeliveries only.
InitHealthy == PipeInit(0, MaxEpoch - 1) /\ ExecIdle /\ nsjailPath = "present"

NextHealthy == ConsumerStep \/ WorkerStep

SpecHealthy == InitHealthy /\ [][NextHealthy]_vars

\* Healthy collaborators whose lock records may reach their TTL.
NextExpiry == NextHealthy \/ ExpiryStep

SpecExpiry == InitHealthy /\ [][NextExpiry]_vars

\* Collaborators that may fail while the connection is lost at most once; no
\* shutdown.
InitFaulty == PipeInit(MaxFaults, 1) /\ ExecIdle /\ nsjailPath = "present"

NextFaulty == NextHealthy \/ FaultStep

SpecFaulty == InitFaulty /\ [][NextFaulty]_vars

\* The same with the scheduling the runtime and the broker provide: every
\* goroutine that can take a step eventually does, and the broker eventually
\* accepts a reconnect.
FairFaulty ==
    /\ SpecFaulty
    /\ \A w \in Workers :
          WF_vars(WorkerTake(w) \/ Acquire(w) \/ UpdateStatus(w) \/ Sandbox(w)
                  \/ SandboxFail(w) \/ SetResult(w) \/ Release(w) \/ Settle(w))
    /\ WF_vars((\E j \in Jobs : ConsumerReceive(j)) \/ ConsumerSessionEnd
               \/ ConsumerDispatch \/ ConsumerCheck \/ ConsumerBackoff)
    /\ SF_vars(ConsumerConnect)

\* Healthy collaborators and the shutdown sequence of main.
NextShutdown == NextHealthy \/ ShutdownStep

SpecShutdown == InitHealthy /\ [][NextShutdown]_vars

\* The same with the scheduling the runtime and the broker provide: every
\* goroutine that can take a step eventually does, main carries out its
\* shutdown sequence once the signal has arrived, and the broker eventually
\* accepts a reconnect.
FairShutdown ==
    /\ SpecShutdown
    /\ \A w \in Workers :
          WF_vars(WorkerTake(w) \/ Acquire(w) \/ UpdateStatus(w) \/ Sandbox(w)
                  \/ SetResult(w) \/ Release(w) \/ Settle(w) \/ WorkerCtxDone(w))
    /\ WF_vars((\E j \in Jobs : ConsumerReceive(j)) \/ ConsumerSessionEnd
               \/ ConsumerDispatch \/ ConsumerCheck \/ ConsumerBackoff
               \/ ConsumerCtxDone \/ ConsumerDispatchCancelled
               \/ ConsumerSendClosed)
    /\ SF_vars(ConsumerConnect)
    /\ WF_vars(MainClose \/ MainCancel \/ MainStop \/ MainCloseChan)

\* Healthy stores and broker, but no sandbox tool installed at nsjailPath.
InitNoTool == PipeInit(0, MaxEpoch - 1) /\ ExecIdle /\ nsjailPath = "missing"

SpecNoTool == InitNoTool /\ [][NextHealthy]_vars

\* The lock store alone under direct calls, the pipeline at rest.
NextLock ==
    \E j \in Jobs : LockAcquire(j) \/ LockRelease(j) \/ LockTick(j)

SpecLock == InitHealthy /\ [][NextLock]_vars

\* The store's clock keeps running.
FairLock == SpecLock /\ \A j \in Jobs : WF_vars(LockTick(j))

\* Healthy collaborators with panics inside workers.
NextPanic == NextHealthy \/ PanicStep

SpecPanic == InitHealthy /\ [][NextPanic]_vars

\* One consume session on a healthy connection with a queue that holds at
\* least one message whose body is no JSON Job.
InitPoison ==
    /\ \E bad \in (SUBSET Jobs) \ {{}} : PipeStart(0, MaxEpoch - 1, <<>>, bad)
    /\ ExecIdle
    /\ nsjailPath = "present"

NextPoison ==
    \/ \E j \in Jobs : ConsumerReceivePoison(j)
    \/ \E j \in Jobs : ConsumerReceive(j)
    \/ ConsumerDispatch
    \/ WorkerStep

SpecPoison == InitPoison /\ [][NextPoison]_vars

\* One consume session on a healthy connection whose workers meet store and
\* filesystem failures, one more than MaxFaults so that a failed sandbox run
\* can be followed by a failed status update.
InitSession ==
    PipeStart(MaxFaults + 1, MaxEpoch - 1, <<>>, {}) /\ ExecIdle /\ nsjailPath = "present"

NextSession ==
    \/ \E j \in Jobs : ConsumerReceive(j)
    \/ ConsumerDispatch
    \/ WorkerStep
    \/ FaultStep

SpecSession == InitSession /\ [][NextSession]_vars

\* Healthy collaborators on a connection that is lost up to 2 x PoolSize times.
InitFlaky == PipeInit(0, 2 * PoolSize) /\ ExecIdle /\ nsjailPath = "present"

SpecFlaky == InitFlaky /\ [][NextHealthy]_vars

\* The pool alone, as pool_test drives it: the jobs channel already holds as
\* many envelopes as it has room for (more than there are workers), none of
\* them produced by a broker session, and only the workers run.
QueuedEnvelopes ==
    [i \in 1..ChanCap |-> Envelope(((i - 1) % NumJobs) + 1, 1)]

InitPool ==
    PipeStart(0, MaxEpoch - 1, QueuedEnvelopes, {}) /\ ExecIdle /\ nsjailPath = "present"

SpecPool == InitPool /\ [][WorkerStep]_vars

\* The pool and its owner, as TestPool_GracefulShutdown and main drive it:
\* envelopes are queued, then the owner cancels the context, calls Stop and
\* only then closes the channel. Every goroutine that can take a step
\* eventually does.
NextPoolStop ==
    \/ WorkerStep
    \/ \E w \in Workers : WorkerCtxDone(w)
    \/ MainSignal
    \/ MainClose
    \/ MainCancel
    \/ MainStop
    \/ MainCloseChan

\* TestPool_GracefulShutdown: two sendJob calls before cancel().
SentEnvelopes == <<Envelope(1, 1), Envelope(2, 1)>>

InitPoolStop ==
    PipeStart(0, MaxEpoch - 1, SentEnvelopes, {}) /\ ExecIdle /\ nsjailPath = "present"

SpecPoolStop == InitPoolStop /\ [][NextPoolStop]_vars

FairPoolStop ==
    /\ SpecPoolStop
    /\ \A w \in Workers :
          WF_vars(WorkerTake(w) \/ Acquire(w) \/ UpdateStatus(w) \/ Sandbox(w)
                  \/ SetResult(w) \/ Release(w) \/ Settle(w) \/ WorkerCtxDone(w))
    /\ WF_vars(MainStop)

\* The consumer alone against a broker that goes away MaxEpoch times and
\* refuses up to MaxAttempts connects in a row before it accepts one.
InitReconnect ==
    /\ PipeStartOutage(0, MaxEpoch, <<>>, {}, MaxAttempts)
    /\ ExecIdle
    /\ nsjailPath = "present"

SpecReconnect == InitReconnect /\ [][ConsumerStep]_vars

\* ------------------------------------------------------------ sandbox executor
Kids == 1..MaxKids

Group(ph) == {p \in xprocs : p[1] = ph}

\* Sample diagnostic logs of the sandbox tool (the "[I]".."[F]" lines of its
\* stderr), each given by the phrases its lower-cased text contains.
Logs == {{}, {"oom"}, {"memory cgroup"}, {"cgroup_mem"}, {"time limit"}}

\* Ways the tool ends by itself: exit status 0, 1, or 137 (128 + SIGKILL, the
\* status it reports after killing its child).
LeaderExits == {"exited0", "exitedN", "exited137"}

\* The tool reports its own wall-time limit only after killing the child.
LogsFor(code) == IF code = "exited137" THEN Logs ELSE Logs \ {{"time limit"}}

\* cmd.Start inside cmd.Run: with the context already done, or with no
\* executable at nsjailPath, no process is started; otherwise the tool runs as
\* leader of a new process group (Setpgid).
StartLeader(callerState, path) ==
    IF callerState = "cancelled" \/ path = "missing" THEN "nostart" ELSE "running"
StartErr(callerState) == IF callerState = "cancelled" THEN "canceled" ELSE "nil"
Started(procs, ph, callerState, path) ==
    IF callerState = "cancelled" \/ path = "missing" THEN procs
    ELSE procs \cup {<<ph, 0>>}

\* exec.CommandContext: when the context is done while the process runs,
\* os/exec calls cmd.Process.Kill(), which signals that one PID.
KilledByContext(procs, ph) == procs \ {<<ph, 0>>}

\* runNsjail after cmd.Run: syscall.Kill(-pid, SIGKILL) only when
\* timeoutCtx.Err() == context.DeadlineExceeded and the process was started.
GroupKillSent(err, leader) == err = "deadline" /\ leader # "nostart"

AfterRun(procs, ph, err, leader) ==
    IF GroupKillSent(err, leader) THEN procs \ {p \in procs : p[1] = ph} ELSE procs

\* exitErr.ExitCode(): the exit status, -1 for a process ended by a signal.
WaitCode(leader) ==
    CASE leader = "exitedN" -> 1
      [] leader = "exited137" -> 137
      [] leader = "killed" -> -1
      [] OTHER -> 0

\* isOOMKill: exit code 137, or the lower-cased log contains "oom",
\* "memory cgroup" or "cgroup_mem".
isOOMKill(exitCode, nsjailLog) ==
    \/ exitCode = 137
    \/ "oom" \in nsjailLog
    \/ "memory cgroup" \in nsjailLog
    \/ "cgroup_mem" \in nsjailLog

\* The error cmd.Run returns: an *exec.ExitError for a tool that ran and did
\* not exit with 0; another error when it could not be started, or when it
\* exited with 0 and a copy goroutine failed (io.ErrShortWrite); else nil.
RunErr(leader, short) ==
    IF leader \in {"exitedN", "exited137", "killed"} THEN "exit"
    ELSE IF leader = "nostart" \/ short THEN "other"
    ELSE "nil"

\* Mutant: the branch for an error that is no *exec.ExitError sets no Status.
RunStatusUnset(err, leader, log, short) ==
    IF err = "deadline" THEN StatusTimeout
    ELSE IF RunErr(leader, short) = "exit"
         THEN IF isOOMKill(WaitCode(leader), log)
              THEN StatusMemoryLimitExceeded ELSE StatusRuntimeError
    ELSE IF RunErr(leader, short) = "other" THEN ""
    ELSE StatusSuccess

\* runNsjail: the Status of the result of one invocation.
RunStatus(err, leader, log, short) ==
    IF err = "deadline" THEN StatusTimeout
    ELSE IF RunErr(leader, short) = "exit"
         THEN IF isOOMKill(WaitCode(leader), log)
              THEN StatusMemoryLimitExceeded ELSE StatusRuntimeError
    ELSE IF RunErr(leader, short) = "other" THEN StatusInternalError
    ELSE StatusSuccess

Streams == {"stdout", "stderr"}
Chunks == 1..MaxChunk
EmptyBuffers == [s \in Streams |-> [len |-> 0, truncated |-> FALSE]]
NoBytes == [s \in Streams |-> 0]

\* Mutant: Write keeps the whole chunk that crosses the limit.
WriteNoCut(lb, n) ==
    IF lb.truncated THEN <<lb, n>>
    ELSE IF maxOutputBytes - lb.len <= 0
         THEN <<[lb EXCEPT !.truncated = TRUE], n>>
    ELSE IF n > maxOutputBytes - lb.len
         THEN <<[len |-> lb.len + n, truncated |-> TRUE], n>>
    ELSE <<[lb EXCEPT !.len = lb.len + n], n>>

\* limitedBuffer.Write of a chunk of n bytes (lb.limit = maxOutputBytes): the
\* buffer afterwards and the byte count returned to the caller.
Write(lb, n) ==
    IF lb.truncated THEN <<lb, n>>
    ELSE IF maxOutputBytes - lb.len <= 0
         THEN <<[lb EXCEPT !.truncated = TRUE], n>>
    ELSE IF n > maxOutputBytes - lb.len
         THEN <<[len |-> maxOutputBytes, truncated |-> TRUE],
                maxOutputBytes - lb.len>>
    ELSE <<[lb EXCEPT !.len = lb.len + n], n>>

\* truncateOutput: the text kept, and whether outputTruncatedMsg follows it.
truncateOutput(s, wasTruncated) == [kept |-> s, marked |-> wasTruncated]

\* runNsjail: Stdout and Stderr of the result. Stderr is the program's part of
\* the captured stderr, or err.Error() when cmd.Run failed with an error that
\* is no *exec.ExitError.
ResultText(buf, prog, err, leader, short) ==
    [stdout |-> truncateOutput(buf["stdout"].len, buf["stdout"].truncated),
     stderr |-> IF err # "deadline" /\ RunErr(leader, short) = "other"
                THEN [kept |-> 0, marked |-> FALSE, errText |-> TRUE]
                ELSE [kept |-> prog, marked |-> FALSE, errText |-> FALSE]]

\* runNsjail: result.ExitCode (-1 on timeout, the exit code of an
\* *exec.ExitError otherwise; it stays 0 when the command could not start).
ResultExitCode(err, leader) == IF err = "deadline" THEN -1 ELSE WaitCode(leader)

\* Mutant: the compile gate tests ExitCode > 0.
ExitNonZeroPositive(err, leader) == ResultExitCode(err, leader) > 0

\* executeCpp: compileResult.ExitCode != 0.
ExitNonZero(err, leader) == ResultExitCode(err, leader) # 0

\* Execute, default case: Stdout empty, Stderr "unsupported language: ...".
UnsupportedText ==
    [stdout |-> truncateOutput(0, FALSE),
     stderr |-> [kept |-> 0, marked |-> FALSE, errText |-> TRUE]]

\* Execute: os.MkdirTemp, the switch on the language, write the files, first
\* sandbox invocation.
XBegin(lang, fs) ==
    /\ xpc = "idle"
    /\ xlang' = lang
    /\ xlog' = {}
    /\ xbuf' = EmptyBuffers
    /\ xwrote' = NoBytes
    /\ xprog' = 0
    /\ xshort' = {}
    /\ xstderr' = "none"
    /\ IF fs # "ok"
       THEN \* os.MkdirTemp or os.WriteFile failed: return nil, err
            /\ xpc' = "returned"
            /\ xreturn' = "error"
            /\ xstatus' = "none"
            /\ xres' = "none"
            /\ UNCHANGED <<xleader, xerr, xprocs>>
       ELSE IF lang \notin {LangPython, LangCpp}
       THEN \* default case of the switch
            /\ xpc' = "returned"
            /\ xreturn' = "result"
            /\ xstatus' = StatusInternalError
            /\ xres' = UnsupportedText
            /\ UNCHANGED <<xleader, xerr, xprocs>>
       ELSE /\ xpc' = IF lang = LangCpp THEN "compile" ELSE "run"
            /\ xleader' = StartLeader(xcaller, nsjailPath)
            /\ xerr' = StartErr(xcaller)
            /\ xprocs' = Started(xprocs, xpc', xcaller, nsjailPath)
            /\ xstatus' = "none"
            /\ xres' = "none"
            /\ xreturn' = "none"
    /\ UNCHANGED <<xcaller, xsignals, nsjailPath, timeVars, pipeVars>>

\* The child (the tool or the program under it) writes n bytes to a stream and
\* the copy goroutine of cmd.Run hands them to the stream's limitedBuffer in
\* one Write; a short count ends that goroutine with io.ErrShortWrite and
\* closes the read end of the pipe.
XWrite(st, n, isProgram) ==
    /\ xpc \in {"compile", "run"}
    /\ xleader = "running"
    /\ st \notin xshort
    /\ xwrote[st] + n <= maxOutputBytes + MaxChunk
    /\ LET r == Write(xbuf[st], n)
       IN /\ xbuf' = [xbuf EXCEPT ![st] = r[1]]
          /\ xshort' = IF r[2] < n THEN xshort \cup {st} ELSE xshort
          /\ xprog' = IF st = "stderr" /\ isProgram
                      THEN xprog + (r[1].len - xbuf[st].len) ELSE xprog
    /\ xwrote' = [xwrote EXCEPT ![st] = @ + n]
    /\ UNCHANGED <<xpc, xlang, xprocs, xleader, xerr, xcaller, xsignals, xstatus,
                   xstderr, xlog, xres, xreturn, nsjailPath, timeVars, pipeVars>>

\* The sandboxed program forks: the new process stays in the tool's group.
XFork(k) ==
    /\ xpc \in {"compile", "run"}
    /\ xleader = "running"
    /\ <<xpc, k>> \notin xprocs
    /\ xprocs' = xprocs \cup {<<xpc, k>>}
    /\ UNCHANGED <<xpc, xlang, xleader, xerr, xcaller, xsignals, xstatus,
                   xstderr, xlog, xbuf, xwrote, xprog, xshort, xres, xreturn, nsjailPath, timeVars, pipeVars>>

\* A descendant exits by itself.
XKidExit(p) ==
    /\ p \in xprocs
    /\ p[2] # 0
    /\ xprocs' = xprocs \ {p}
    /\ UNCHANGED <<xpc, xlang, xleader, xerr, xcaller, xsignals, xstatus,
                   xstderr, xlog, xbuf, xwrote, xprog, xshort, xres, xreturn, nsjailPath, timeVars, pipeVars>>

\* The tool exits by itself after its jail is gone (its PID namespace takes
\* the descendants with it), leaving some diagnostic log.
XLeaderExit(code, log) ==
    /\ xpc \in {"compile", "run"}
    /\ xleader = "running"
    /\ xleader' = code
    /\ xlog' = log
    /\ xprocs' = xprocs \ Group(xpc)
    /\ UNCHANGED <<xpc, xlang, xerr, xcaller, xsignals, xstatus, xstderr,
                   xbuf, xwrote, xprog, xshort, xres, xreturn, nsjailPath, timeVars, pipeVars>>

\* The deadline of timeoutCtx (or of compileCtx above it) passes.
XDeadline ==
    /\ xpc \in {"compile", "run"}
    /\ xerr = "nil"
    /\ xerr' = "deadline"
    /\ IF xleader = "running"
       THEN /\ xleader' = "killed"
            /\ xprocs' = KilledByContext(xprocs, xpc)
            /\ xsignals' = xsignals \cup {<<xpc, "pid">>}
            /\ \E log \in Logs : xlog' = log
       ELSE UNCHANGED <<xleader, xprocs, xsignals, xlog>>
    /\ UNCHANGED <<xpc, xlang, xcaller, xstatus, xstderr, xbuf, xwrote, xprog, xshort, xres, xreturn, nsjailPath, timeVars,
                   pipeVars>>

\* The caller cancels the context handed to Execute.
XCallerCancel ==
    /\ xcaller = "live"
    /\ xcaller' = "cancelled"
    /\ IF xpc \in {"compile", "run"} /\ xerr = "nil"
       THEN /\ xerr' = "canceled"
            /\ IF xleader = "running"
               THEN /\ xleader' = "killed"
                    /\ xprocs' = KilledByContext(xprocs, xpc)
                    /\ xsignals' = xsignals \cup {<<xpc, "pid">>}
                    /\ \E log \in LogsFor("killed") : xlog' = log
               ELSE UNCHANGED <<xleader, xprocs, xsignals, xlog>>
       ELSE UNCHANGED <<xerr, xleader, xprocs, xsignals, xlog>>
    /\ UNCHANGED <<xpc, xlang, xstatus, xstderr, xbuf, xwrote, xprog, xshort, xres, xreturn, nsjailPath, timeVars,
                   pipeVars>>

\* cmd.Run has returned; runNsjail builds the result; executeCpp either
\* returns it or goes on to the run phase; Execute returns.
XReturn ==
    /\ xpc \in {"compile", "run"}
    /\ xleader # "running"
    /\ LET procs == AfterRun(xprocs, xpc, xerr, xleader)
           sigs == IF GroupKillSent(xerr, xleader)
                   THEN xsignals \cup {<<xpc, "group">>} ELSE xsignals
       IN /\ xsignals' = sigs
          /\ IF xpc = "compile" /\ ~ExitNonZero(xerr, xleader)
             THEN /\ xpc' = "run"
                  /\ xleader' = StartLeader(xcaller, nsjailPath)
                  /\ xerr' = StartErr(xcaller)
                  /\ xprocs' = Started(procs, "run", xcaller, nsjailPath)
                  /\ xlog' = {}
                  /\ xbuf' = EmptyBuffers
                  /\ xwrote' = NoBytes
                  /\ xprog' = 0
                  /\ xshort' = {}
                  /\ UNCHANGED <<xstatus, xstderr, xres, xreturn>>
             ELSE /\ xpc' = "returned"
                  /\ xprocs' = procs
                  /\ xstatus' = IF xpc = "compile" THEN StatusCompilationError
                                ELSE RunStatus(xerr, xleader, xlog, xshort # {})
                  /\ xstderr' = xpc
                  /\ xres' = ResultText(xbuf, xprog, xerr, xleader, xshort # {})
                  /\ xreturn' = "result"
                  /\ UNCHANGED <<xleader, xerr, xlog, xbuf, xwrote, xprog, xshort>>
    /\ UNCHANGED <<xlang, xcaller, nsjailPath, timeVars, pipeVars>>

\* The next Execute call starts from a clean process table and a fresh context.
XReset ==
    /\ xpc = "returned"
    /\ xpc' = "idle"
    /\ xlang' = "none"
    /\ xprocs' = {}
    /\ xleader' = "none"
    /\ xerr' = "nil"
    /\ xcaller' = "live"
    /\ xsignals' = {}
    /\ xstatus' = "none"
    /\ xstderr' = "none"
    /\ xlog' = {}
    /\ xbuf' = EmptyBuffers
    /\ xwrote' = NoBytes
    /\ xprog' = 0
    /\ xshort' = {}
    /\ xres' = "none"
    /\ xreturn' = "none"
    /\ UNCHANGED <<nsjailPath, timeVars, pipeVars>>

NextExec ==
    \/ \E lang \in {LangPython, LangCpp, LangOther}, fs \in {"ok", "fault"} :
           XBegin(lang, fs)
    \/ \E k \in Kids : XFork(k)
    \/ \E st \in Streams, n \in Chunks, isProgram \in BOOLEAN : XWrite(st, n, isProgram)
    \/ \E p \in xprocs : XKidExit(p)
    \/ \E code \in LeaderExits : \E log \in LogsFor(code) : XLeaderExit(code, log)
    \/ XDeadline
    \/ XCallerCancel
    \/ XReturn
    \/ XReset

\* One executor working through Execute calls, the pipeline at rest.
InitExec ==
    PipeInit(0, MaxEpoch - 1) /\ ExecIdle /\ nsjailPath \in {"present", "missing"}

SpecExec == InitExec /\ [][NextExec]_vars

\* ------------------------------------------------------------ wall budgets
\* Validation of the request: time_limit_ms is at most 30000.
MaxTimeLimitMs == 30000
TimeLimits == 1..MaxTimeLimitMs

\* executeCpp: context.WithTimeout(ctx, 10*time.Second), in milliseconds.
compileTimeout == 10000

\* A context without deadline (the worker's context is only ever cancelled).
NoDeadline == -1

\* context.WithTimeout(parent, d) called at time now: the deadline of the
\* new context is the earlier of the parent's and now + d.
WithTimeout(parent, now, d) ==
    IF parent = NoDeadline THEN now + d ELSE Min(parent, now + d)

\* runNsjail: "--time_limit", req.TimeLimitMs/1000+1 (seconds).
ToolTimeLimit(T) == (T \div 1000) + 1

\* Mutant: the outer timeout has no grace period.
OuterTimeoutNoGrace(T) == T

\* runNsjail: time.Duration(req.TimeLimitMs+2000)*time.Millisecond.
OuterTimeout(T) == T + 2000

\* Sample times, in milliseconds, a child takes to finish by itself.
Durations == {500, 1500}

\* runNsjail called at time now for phase ph under a context with deadline
\* parent: the two limits of the invocation.
TInvoke(ph, T, now, parent) ==
    /\ tphase' = ph
    /\ tstart' = now
    /\ targ' = ToolTimeLimit(T)
    /\ tdeadline' = WithTimeout(parent, now, OuterTimeout(T))

\* Execute for a request with time limit T: executeCpp creates compileCtx
\* and runs the compile invocation under it; executePython runs the only
\* invocation under the caller's context.
TBegin(T, lang) ==
    /\ tphase = "idle"
    /\ tlang' = lang
    /\ tlimit' = T
    /\ tnow' = 0
    /\ IF lang = LangCpp
       THEN TInvoke("compile", T, 0, WithTimeout(NoDeadline, 0, compileTimeout))
       ELSE TInvoke("run", T, 0, NoDeadline)
    /\ UNCHANGED <<tlast, tcause, tstatus, runVars, pipeVars>>

\* The child finishes by itself with status 0 after d milliseconds, before
\* either limit: a compile is followed by the run invocation under the
\* caller's context, a run by Execute's return with Success.
TChildExits(d) ==
    /\ tphase \in {"compile", "run"}
    /\ d < targ * 1000
    /\ tstart + d < tdeadline
    /\ tnow' = tstart + d
    /\ IF tphase = "compile"
       THEN /\ TInvoke("run", tlimit, tstart + d, NoDeadline)
            /\ UNCHANGED <<tlast, tcause, tstatus>>
       ELSE /\ tphase' = "returned"
            /\ tlast' = tphase
            /\ tcause' = "exit"
            /\ tstatus' = RunStatus("nil", "exited0", {}, FALSE)
            /\ UNCHANGED <<tstart, targ, tdeadline>>
    /\ UNCHANGED <<tlang, tlimit, runVars, pipeVars>>

\* Status Execute returns for an invocation that ended with err and leader:
\* a compile invocation with a non-zero ExitCode gives COMPILATION_ERROR.
TStatus(ph, err, leader, log) ==
    IF ph = "compile" /\ ExitNonZero(err, leader) THEN StatusCompilationError
    ELSE RunStatus(err, leader, log, FALSE)

\* The child is still running when the tool's own limit expires, no later
\* than the outer deadline: the tool kills it, reports the time limit in its
\* log and exits with 137.
TToolKill ==
    /\ tphase \in {"compile", "run"}
    /\ tstart + targ * 1000 <= tdeadline
    /\ tnow' = tstart + targ * 1000
    /\ tphase' = "returned"
    /\ tlast' = tphase
    /\ tcause' = "tool"
    /\ tstatus' = TStatus(tphase, "nil", "exited137", {"time limit"})
    /\ UNCHANGED <<tlang, tlimit, tstart, targ, tdeadline, runVars, pipeVars>>

\* The child is still running when timeoutCtx's deadline arrives, because
\* the deadline is not later than the tool's limit or because the tool did
\* not enforce it: os/exec kills the tool and runNsjail returns TIMEOUT.
TDeadline ==
    /\ tphase \in {"compile", "run"}
    /\ tnow' = tdeadline
    /\ tphase' = "returned"
    /\ tlast' = tphase
    /\ tcause' = IF tstart + targ * 1000 < tdeadline THEN "outer" ELSE "outerFirst"
    /\ tstatus' = TStatus(tphase, "deadline", "killed", {})
    /\ UNCHANGED <<tlang, tlimit, tstart, targ, tdeadline, runVars, pipeVars>>

\* The caller takes the result; the executor is ready for the next request.
TReset ==
    /\ tphase = "returned"
    /\ tphase' = "idle"
    /\ tlang' = "none"
    /\ tlimit' = 0
    /\ tnow' = 0
    /\ tstart' = 0
    /\ targ' = 0
    /\ tdeadline' = 0
    /\ tlast' = "none"
    /\ tcause' = "none"
    /\ tstatus' = "none"
    /\ UNCHANGED <<runVars, pipeVars>>

NextBudget ==
    \/ /\ tphase = "idle"
       /\ \E T \in TimeLimits, lang \in {LangPython, LangCpp} : TBegin(T, lang)
    \/ \E d \in Durations : TChildExits(d)
    \/ TToolKill
    \/ TDeadline
    \/ TReset

\* One executor working through Execute calls for every admissible time
\* limit, the pipeline at rest.
InitBudget == PipeInit(0, MaxEpoch - 1) /\ ExecIdle /\ nsjailPath = "present"

SpecBudget == InitBudget /\ [][NextBudget]_vars

\* ============================================================ claims
InFlight(w) == wpc[w] \in {"acquire", "update", "sandbox", "sandboxfail",
                           "setresult", "release"}

Returned(w) == wpc[w] \in {"settle", "select"} /\ wres[w] \notin {"none", "panic"}

OnlyAck == [ack |-> 1, nackDlq |-> 0, nackRequeue |-> 0]
OnlyNackDlq == [ack |-> 0, nackDlq |-> 1, nackRequeue |-> 0]
OnlyNackRequeue == [ack |-> 0, nackDlq |-> 0, nackRequeue |-> 1]

C2_AckAfterDurableWrite == earlyAck = {}

C4_DuplicateAfterCompletion ==
    \A w \in Workers :
        preDone[w] =>
            /\ wres[w] = "dup"
            /\ writes[w] = 0
            /\ wverdict[w] = "none"
            /\ wpc[w] \in {"settle", "select"}
            /\ wpc[w] = "select" => calls[w] = OnlyAck
            /\ wpc[w] = "settle" => calls[w] = NoCalls

\* A redelivery of a completed job has been acknowledged as duplicate.
C4_Witness ==
    \E w \in Workers :
        /\ preDone[w] /\ wpc[w] = "select" /\ calls[w].ack = 1
        /\ \E j \in Jobs : nSetResult[j] = 1 /\ lock[j] > 0 /\ IsTerminal(status[j])

\* C5: every job eventually reaches a terminal durable state, also when a
\* store operation failed for one of its deliveries and the stores recovered.
C5_NoJobLost == \A j \in Jobs : <>IsTerminal(status[j])

\* C6: when main has finished its shutdown sequence no delivered message is
\* left unsettled in the dispatch channel or in the consumer's hand, and no
\* worker has rejected a message without requeue because of the shutdown.
C6_ShutdownDrains ==
    mpc = "exit" =>
        /\ jobsChan = <<>>
        /\ cmsg = NoMsg
        /\ \A w \in Workers : IsErr(wres[w]) => calls[w].nackDlq = 0

\* C7: when Execute has returned no process of a process group created for
\* its sandbox invocations is alive, and an invocation whose tool was killed
\* because the caller's context was cancelled had SIGKILL sent to its group.
C7_NoSubprocessLeak ==
    xpc = "returned" =>
        /\ xprocs = {}
        /\ \A s \in xsignals :
              (s[2] = "pid" /\ xcaller = "cancelled") => <<s[1], "group">> \in xsignals

C9_InfraFailuresRequeued ==
    \A w \in Workers :
        (wpc[w] = "select" /\ wres[w] \in {"err_lock", "err_status", "err_result"})
            => calls[w] = OnlyNackRequeue

\* C10: a worker in which processing panicked rejects that envelope without
\* requeue and keeps running, so every worker of the pool stays alive.
C10_PanicContained ==
    /\ \A w \in Workers : wres[w] = "panic" => calls[w] = OnlyNackDlq
    /\ \A w \in Workers : wpc[w] # "exited"

\* C11: a worker whose envelope was in hand when the shared context was
\* cancelled (an orchestrator round trip aborted by the cancellation returned
\* an error) rejects that envelope with requeue=true.
C11_CancellationRequeues ==
    \A w \in Workers :
        (cancelled /\ IsErr(wres[w]) /\ wpc[w] \in {"select", "exited"})
            => calls[w] = OnlyNackRequeue

\* C12: when AcquireLock returns acquired=false without error, Execute
\* returns (true, nil) at once: no UpdateStatus, sandbox run, SetResult or
\* ReleaseLock is issued by the call, and the step leaves the durable store
\* and the lock record as they were.
C12_DuplicateNoEffect ==
    /\ [](\A w \in Workers :
            wres[w] = "dup" =>
                /\ wpc[w] \in {"settle", "select"}
                /\ writes[w] = 0
                /\ wverdict[w] = "none")
    /\ [][\A w \in Workers :
            (wres[w] # "dup" /\ wres'[w] = "dup") =>
                /\ status' = status
                /\ lock' = lock
                /\ nSandbox' = nSandbox
                /\ nSetResult' = nSetResult
                /\ nOk' = nOk]_vars

\* A delivery was classified as duplicate while another worker was still
\* inside Execute for the same job.
C12_Witness ==
    \E w1, w2 \in Workers :
        /\ wpc[w1] = "settle" /\ wres[w1] = "dup"
        /\ InExecute(w2) /\ wmsg[w2].job = wmsg[w1].job

\* C13: when AcquireLock returns an error, Execute returns that error at
\* once and performs no UpdateStatus, no sandbox run and no SetResult; the
\* durable store and the lock record stay as they were.
C13_FailClosedGate ==
    /\ [](\A w \in Workers :
            wres[w] = "err_lock" =>
                /\ wpc[w] \in {"settle", "select"}
                /\ writes[w] = 0
                /\ wverdict[w] = "none")
    /\ [][\A w \in Workers :
            (wres[w] # "err_lock" /\ wres'[w] = "err_lock") =>
                /\ status' = status
                /\ lock' = lock
                /\ nSandbox' = nSandbox
                /\ nSetResult' = nSetResult]_vars

\* AcquireLock failed for a job nobody has worked on: the call is back in the
\* worker with the error and the job is still QUEUED with no lock record.
C13_Witness ==
    \E w \in Workers :
        /\ wpc[w] = "settle" /\ wres[w] = "err_lock"
        /\ status[wmsg[w].job] = StatusQueued /\ lock[wmsg[w].job] = 0

\* C14: with no sandbox tool to invoke, the job's durable status becomes
\* INTERNAL_ERROR and the worker rejects the message without requeue; the
\* message is not acknowledged.
C14_MissingToolDeadLettered ==
    nsjailPath = "missing" =>
        \A w \in Workers :
            (wpc[w] = "select" /\ wres[w] \notin {"none", "dup"}) =>
                /\ calls[w] = OnlyNackDlq
                /\ calls[w].ack = 0

\* C15: among the AcquireLock calls made for a job while its lock record
\* has not expired, exactly one returned acquired=true (the one that created
\* the record) and every other one returned false.
C15_LockExclusive ==
    \A j \in Jobs :
        /\ lock[j] > 0 => nAcquired[j] = 1
        /\ lock[j] = 0 => (nAcquired[j] = 0 /\ nRefused[j] = 0)

\* One call acquired the lock of a job and two later calls were refused.
C15_Witness == \E j \in Jobs : nAcquired[j] = 1 /\ nRefused[j] = 2 /\ lock[j] > 0

\* C16: ReleaseLock never deletes the record, it gives it the full TTL
\* again; an AcquireLock that follows a release while the record is there is
\* refused; and every record is eventually removed by its TTL once the
\* releases have stopped.
C16_ReleaseRetains ==
    /\ [][\A j \in Jobs :
            nReleased'[j] = nReleased[j] + 1 =>
                /\ lock[j] > 0 => lock'[j] = lockTTL
                /\ lock[j] = 0 => lock'[j] = 0]_vars
    /\ [][\A j \in Jobs :
            (nReleased[j] > 0 /\ lock[j] > 0
               /\ nAcquired'[j] + nRefused'[j] = nAcquired[j] + nRefused[j] + 1)
                => nRefused'[j] = nRefused[j] + 1]_vars
    /\ \A j \in Jobs : (lock[j] > 0) ~> (lock[j] = 0)

\* A record was acquired and released, still exists with a full TTL, and an
\* AcquireLock on it was refused.
C16_Witness ==
    \E j \in Jobs :
        nAcquired[j] = 1 /\ nReleased[j] = 1 /\ nRefused[j] = 1 /\ lock[j] = lockTTL

\* C17 (timeout verdict): when the run-phase invocation decided the result and
\* either its outer deadline fired or the tool's log reports that its own time
\* limit was hit, the returned status is TIMEOUT, whatever the exit code.
C17_TimeoutVerdict ==
    (/\ xpc = "returned"
     /\ xstderr = "run"
     /\ (xerr = "deadline" \/ "time limit" \in xlog))
        => xstatus = StatusTimeout

\* C18 (classification without timeout): when the tool ended by itself in the
\* run phase, no deadline fired and its log reports no time limit, the status is
\* MEMORY_LIMIT_EXCEEDED if the exit code is 137 or the log mentions
\* memory-cgroup/OOM, otherwise RUNTIME_ERROR if the exit code is non-zero,
\* otherwise SUCCESS.
C18_VerdictClassification ==
    (/\ xpc = "returned"
     /\ xstderr = "run"
     /\ xerr = "nil"
     /\ xleader \in LeaderExits
     /\ "time limit" \notin xlog)
        => xstatus =
              IF WaitCode(xleader) = 137
                 \/ xlog \cap {"oom", "memory cgroup", "cgroup_mem"} # {}
              THEN StatusMemoryLimitExceeded
              ELSE IF WaitCode(xleader) # 0 THEN StatusRuntimeError
              ELSE StatusSuccess

\* C19 (verdict on caller cancellation): when the tool was killed because the
\* caller's context was cancelled, Execute returns TIMEOUT or INTERNAL_ERROR,
\* never SUCCESS, RUNTIME_ERROR or MEMORY_LIMIT_EXCEEDED.
C19_CancellationVerdict ==
    (/\ xpc = "returned"
     /\ xerr = "canceled"
     /\ xleader = "killed")
        => xstatus \in {StatusTimeout, StatusInternalError}

\* C20 (compilation error short-circuits): for a C++ job, every step that
\* leaves the compile phase after the compile invocation ended with a non-zero
\* exit code ends Execute with COMPILATION_ERROR, the result being the compile
\* invocation's (its stderr included), and no run-phase process is started.
C20_CompileErrorShortCircuits ==
    [][(/\ xpc = "compile"
        /\ xlang = LangCpp
        /\ xpc' # "compile"
        /\ ResultExitCode(xerr, xleader) # 0)
           => (/\ xpc' = "returned"
               /\ xstatus' = StatusCompilationError
               /\ xstderr' = "compile"
               /\ {p \in xprocs' : p[1] = "run"} = {})]_vars

\* A C++ job whose compiler exited with a non-zero status was returned as
\* COMPILATION_ERROR.
C20_Witness ==
    /\ xpc = "returned"
    /\ xlang = LangCpp
    /\ xleader = "exitedN"
    /\ xstderr = "compile"
    /\ xstatus = StatusCompilationError

\* C21 (output is bounded): whatever the child writes, neither capture buffer
\* ever retains more than maxOutputBytes, and the stdout and stderr text of a
\* returned result (before the fixed truncation suffix) is at most that long.
C21_OutputBounded ==
    /\ \A st \in Streams : xbuf[st].len <= maxOutputBytes
    /\ (xpc = "returned" /\ xreturn = "result") =>
          /\ xres.stdout.kept <= maxOutputBytes
          /\ xres.stderr.kept <= maxOutputBytes

\* The child wrote more than the limit to stdout and to stderr, and the result
\* returned holds exactly the limit on stdout.
C21_Witness ==
    /\ xpc = "returned"
    /\ xreturn = "result"
    /\ xwrote["stdout"] > maxOutputBytes
    /\ xwrote["stderr"] > maxOutputBytes
    /\ xres.stdout.kept = maxOutputBytes

\* C22 (truncation is always marked): in a returned result that carries the
\* captured streams, stdout ends with the truncation suffix exactly when the
\* child wrote more than maxOutputBytes to stdout, and stderr ends with it
\* exactly when the child wrote more than maxOutputBytes to stderr.
C22_TruncationMarked ==
    (xpc = "returned" /\ xreturn = "result" /\ ~xres.stderr.errText) =>
        /\ xres.stdout.marked <=> (xwrote["stdout"] > maxOutputBytes)
        /\ xres.stderr.marked <=> (xwrote["stderr"] > maxOutputBytes)

\* C23 (every result carries a verdict): whenever Execute returns a result with
\* a nil error, for Python, C++ ending in the compile phase, C++ ending in the
\* run phase, or an unsupported language, its Status is one of the six terminal
\* verdicts; for an unsupported language it is INTERNAL_ERROR and Stderr is
\* not empty.
C23_ResultCarriesVerdict ==
    (xpc = "returned" /\ xreturn = "result") =>
        /\ xstatus \in TerminalStatuses
        /\ xlang \notin {LangPython, LangCpp} =>
              /\ xstatus = StatusInternalError
              /\ (xres.stderr.errText \/ xres.stderr.kept > 0)

\* Execute returned a result for an unsupported language.
C23_Witness ==
    /\ xpc = "returned"
    /\ xreturn = "result"
    /\ xlang = LangOther
    /\ xstatus = StatusInternalError

\* C24 (pool size caps concurrency): in every reachable state at most PoolSize
\* orchestrations, and so at most PoolSize sandbox executions, are in progress,
\* however many envelopes are queued.
C24_PoolCapsConcurrency ==
    /\ Cardinality({w \in DOMAIN wpc :
           wpc[w] \in {"acquire", "update", "sandbox", "sandboxfail",
                       "setresult", "release"}}) <= PoolSize
    /\ Cardinality({w \in DOMAIN wpc : wpc[w] = "sandbox"}) <= PoolSize

\* Every worker is inside an orchestration while envelopes are still queued.
C24_Witness ==
    /\ \A w \in Workers : InExecute(w)
    /\ jobsChan # <<>>

\* C25 (poison payloads are dead-lettered): a delivery whose body cannot be
\* deserialized is rejected without requeue by the consumer loop in the step
\* that receives it, which leaves the dispatch channel alone and the consumer
\* at the head of its loop; no envelope for such a message is ever held by
\* the consumer, the dispatch channel or a worker.
C25_PoisonDeadLettered ==
    /\ [][\A j \in Jobs :
            (bstate[j] = "poison" /\ bstate'[j] # "poison")
               => /\ bstate'[j] = "dlq"
                  /\ jobsChan' = jobsChan
                  /\ cmsg' = NoMsg
                  /\ cpc' = "select"]_vars
    /\ [](\A j \in Jobs :
            (bstate[j] = "poison" \/ (bstate[j] = "dlq" /\ status[j] = StatusQueued))
               => /\ cmsg.job # j
                  /\ \A i \in 1..Len(jobsChan) : jobsChan[i].job # j
                  /\ \A w \in Workers : wmsg[w].job # j)

\* A poison message was dead-lettered and the same session then received
\* and dispatched a valid one.
C25_Witness ==
    \E j, k \in Jobs :
        /\ bstate[j] = "dlq"
        /\ status[j] = StatusQueued
        /\ bstate[k] = "unacked"
        /\ jobsChan # <<>>
        /\ Head(jobsChan) = Envelope(k, chanEpoch)

\* C26 (step order on the success path): a call of Execute that returns
\* (false, nil) has made exactly the calls AcquireLock, UpdateStatus(initial),
\* executor.Execute, SetResult, ReleaseLock, once each and in this order, with
\* initial = COMPILING for C++ and RUNNING otherwise and the first four
\* successful; a call whose first four steps succeeded returns (false, nil)
\* whether ReleaseLock failed or not; and ReleaseLock is never called except
\* right after a SetResult that returned nil.
C26_StepOrder ==
    \A w \in Workers :
        /\ (wpc[w] = "settle" /\ wres[w] = "ok") =>
              /\ [i \in 1..Len(steps[w]) |-> steps[w][i].op]
                    = <<"AcquireLock", "UpdateStatus", "Execute", "SetResult", "ReleaseLock">>
              /\ steps[w][2].arg = (IF Language(wmsg[w].job) = LangCpp
                                    THEN StatusCompiling ELSE StatusRunning)
              /\ \A i \in 1..4 : steps[w][i].ok
        /\ (wpc[w] = "settle" /\ Len(steps[w]) = 5) => wres[w] = "ok"
        /\ \A i \in 1..Len(steps[w]) :
              steps[w][i].op = "ReleaseLock" =>
                  /\ i > 1
                  /\ steps[w][i - 1].op = "SetResult"
                  /\ steps[w][i - 1].ok

\* A C++ job went through all five steps, ReleaseLock failed, and Execute
\* returned (false, nil).
C26_Witness ==
    \E w \in Workers :
        /\ wpc[w] = "settle"
        /\ wres[w] = "ok"
        /\ Language(wmsg[w].job) = LangCpp
        /\ Len(steps[w]) = 5
        /\ ~steps[w][5].ok

\* C27 (sandbox infrastructure error path): a call of Execute whose executor
\* returned an error has issued exactly two status updates, the initial status
\* and then INTERNAL_ERROR, has not called SetResult or ReleaseLock, and returns
\* (false, that error) whether the second update failed or not.
C27_SandboxErrorPath ==
    \A w \in Workers :
        (wpc[w] = "settle" /\ \E i \in 1..Len(steps[w]) :
                                 steps[w][i].op = "Execute" /\ ~steps[w][i].ok)
           => /\ wres[w] = "err_sandbox"
              /\ [i \in 1..Len(steps[w]) |-> steps[w][i].op]
                    = <<"AcquireLock", "UpdateStatus", "Execute", "UpdateStatus">>
              /\ steps[w][2].arg = (IF Language(wmsg[w].job) = LangCpp
                                    THEN StatusCompiling ELSE StatusRunning)
              /\ steps[w][4].arg = StatusInternalError

\* The executor returned an error, the INTERNAL_ERROR update failed too, and
\* Execute returned the executor's error.
C27_Witness ==
    \E w \in Workers :
        /\ wpc[w] = "settle"
        /\ wres[w] = "err_sandbox"
        /\ Len(steps[w]) = 4
        /\ ~steps[w][3].ok
        /\ ~steps[w][4].ok
        /\ status[wmsg[w].job] \in {StatusCompiling, StatusRunning}

\* Envelopes the process holds that no worker has settled yet: in the hands
\* of workers, waiting in the dispatch channel, held by the consumer loop.
HeldEnvelopes ==
    Cardinality({w \in Workers : wmsg[w] # NoMsg}) + Len(jobsChan)
        + (IF cmsg # NoMsg THEN 1 ELSE 0)

\* C28 (bounded in-flight messages): in every reachable state the number of
\* deliveries the process holds and has not ACKed or NACKed is at most
\* PoolSize * 2.
C28_BoundedInFlight == HeldEnvelopes <= PoolSize * 2

\* C29 (consumer stops first): once Consumer.Close has returned, no step sends
\* an envelope on the dispatch channel, opens a new broker connection or
\* starts a new consume session.
C29_ConsumerStopsFirst ==
    [][closed => /\ Len(jobsChan') <= Len(jobsChan)
                 /\ chanEpoch' = chanEpoch
                 /\ (conn = "down" => conn' = "down")]_vars

\* C30 (reconnect backoff schedule): the delay slept before reconnect attempt
\* k (k = 0, 1, 2, ...) is 1, 2, 4, 8, 16 seconds for k up to 4 and 30 seconds
\* from then on, so it is positive and never above 30 seconds; a failed
\* connect only advances k by one and never ends the loop, and k is 0 again
\* when the loop is entered after a session that a successful reconnect began.
C30_BackoffSchedule ==
    [][/\ (cpc = "backoff" /\ cpc' = "sleep") =>
            /\ delay' = (IF attempt <= 4 THEN 2^attempt ELSE 30)
            /\ delay' > 0
            /\ delay' <= 30
       /\ (cpc = "sleep" /\ cpc' # "sleep") =>
            \/ cpc' = "backoff" /\ attempt' = attempt + 1
            \/ cpc' = "select" /\ conn' = "up"
       /\ (cpc = "check" /\ cpc' = "backoff") => attempt' = 0]_vars

\* The consumer sleeps the capped delay in a reconnect loop entered after an
\* earlier loop had reconnected.
C30_Witness ==
    /\ cpc = "sleep"
    /\ chanEpoch >= 1
    /\ attempt >= 5
    /\ delay = maxReconnectDelay

\* C31 (reconnect liveness): whenever the delivery stream is closed while
\* neither the context is cancelled nor Close was called, the consumer leaves
\* the consume session and, the broker accepting a connection, consumes again
\* on a new channel, unless shutdown begins first; and once the context is
\* cancelled or Close was called, Start eventually returns nil.
C31_ReconnectLiveness ==
    /\ \A e \in 0..MaxEpoch :
          (conn = "down" /\ chanEpoch = e /\ ~closed /\ ~cancelled)
              ~> \/ cpc = "select" /\ conn = "up" /\ chanEpoch > e
                 \/ closed
                 \/ cancelled
    /\ (closed \/ cancelled) ~> (cpc = "stopped")

C33_FixedCompileBudget ==
    tphase = "compile" =>
        /\ targ * 1000 = compileTimeout
        /\ tdeadline = tstart + compileTimeout

C35_SmallestTimeLimit ==
    (tphase = "returned" /\ tlimit = 1 /\ tlast = "run" /\ tcause # "exit") =>
        /\ tstatus = StatusTimeout
        /\ tnow <= 2000

\* The lock record of job j is the one a failed attempt left: it exists, no
\* Execute call for j has returned (false, nil) and none is in progress.
LeftLocked(j) ==
    /\ lock[j] > 0
    /\ nOk[j] = 0
    /\ \A w \in Workers : ~(InExecute(w) /\ wmsg[w].job = j)

C37_NoSendOnClosedChannel ==
    chanClosed => cpc \notin {"dispatch", "panicked"}

\* Pool workers that are inside the orchestrator's Execute.
InsideOrchestrator == {w \in Workers : InFlight(w)}

\* C38 (one unsettled delivery per process): in every reachable state the
\* process holds at most one delivery it has not settled, the dispatch channel
\* holds at most one envelope and at most one pool worker is inside the
\* orchestrator.
C38_OneUnsettledPerProcess ==
    /\ HeldEnvelopes <= 1
    /\ Len(jobsChan) <= 1
    /\ Cardinality(InsideOrchestrator) <= 1

\* The Status runNsjail gives the invocation that is ending now.
InvocationStatus == RunStatus(xerr, xleader, xlog, xshort # {})

\* C39 (run phase requires a successful compile): when the compile invocation
\* of a C++ job ends, the run-phase invocation is started if and only if the
\* compile invocation ended with status Success; after InternalError or
\* Timeout no run-phase invocation is started.
C39_RunRequiresCompileSuccess ==
    [][(xpc = "compile" /\ xpc' # "compile")
           => ((xpc' = "run") <=> (InvocationStatus = StatusSuccess))]_vars

\* C40 (the capped writer never reports a short write): in every state of a
\* capture buffer, Write of any chunk returns the length of the chunk; and a
\* child that wrote more than the cap to a stream and exited with 0 is
\* classified Success.
C40_NeverShortWrite ==
    /\ \A st \in Streams, n \in Chunks : Write(xbuf[st], n)[2] = n
    /\ (/\ xpc = "returned"
        /\ xleader = "exited0"
        /\ xerr = "nil"
        /\ \E st \in Streams : xwrote[st] > maxOutputBytes)
           => xstatus = StatusSuccess

====
